---- MODULE Spec2Model ----
(***************************************************************************)
(* A model of the Monkey lexer (package lexer), its token model (package   *)
(* token) and the callers that drive it.  Source text is a sequence of     *)
(* bytes (0..255); positions are zero-based as in the Go code, so the byte *)
(* at position p of s is s[p + 1].                                         *)
(***************************************************************************)
EXTENDS Integers, Sequences, FiniteSets, TLC

VARIABLES src, pos, eofReturned, ret, tokens, calls, prevPos, ident, identType,
          lexers, results, stdin, nread, stdout, pc

vars ==
  <<src, pos, eofReturned, ret, tokens, calls, prevPos, ident, identType,
    lexers, results, stdin, nread, stdout, pc>>

(* The state of several lexers side by side, and of the REPL.              *)
pairVars == <<lexers, results>>

replVars == <<stdin, nread, stdout, pc>>

-----------------------------------------------------------------------------
(* Bounds of the model.                                                    *)

MaxLen == 3

MaxWsLen == 3

MaxIdentLen == 3

MaxExtraCalls == 2

MaxPairLen == 2

MaxLines == 2

-----------------------------------------------------------------------------
(* package token: the token types and the keyword table.                   *)

Illegal == "ILLEGAL"
EOF == "EOF"
Ident == "IDENT"
IntTok == "INT"
Assign == "ASSIGN"
Plus == "PLUS"
Minus == "MINUS"
Slash == "SLASH"
Asterisk == "ASTERISK"
Bang == "BANG"
Less == "LESS"
Greater == "GREATER"
Equal == "EQUAL"
NotEqual == "NOT_EQUAL"
Comma == "COMMA"
Semicolon == "SEMICOLON"
LParen == "L_PAREN"
RParen == "R_PAREN"
LBrace == "L_BRACE"
RBrace == "R_BRACE"
Function == "FUNCTION"
Return == "RETURN"
Let == "LET"
If == "IF"
Else == "ELSE"
True == "TRUE"
False == "FALSE"

(* The bytes the lexer names as character literals.                        *)
Ch ==
  [ nul |-> 0, tab |-> 9, nl |-> 10, vt |-> 11, ff |-> 12, cr |-> 13,
    space |-> 32, bang |-> 33, lparen |-> 40, rparen |-> 41,
    asterisk |-> 42, plus |-> 43, comma |-> 44, minus |-> 45, slash |-> 47,
    zero |-> 48, nine |-> 57, semicolon |-> 59, less |-> 60, assign |-> 61,
    greater |-> 62, upperA |-> 65, upperZ |-> 90, backslash |-> 92,
    underscore |-> 95, lowerA |-> 97, lowerZ |-> 122, lbrace |-> 123,
    rbrace |-> 125, del |-> 127 ]

(* Go string literals of the source, as byte sequences.                    *)
StrEqual == <<61, 61>>
StrNotEqual == <<33, 61>>
StrFn == <<102, 110>>
StrReturn == <<114, 101, 116, 117, 114, 110>>
StrLet == <<108, 101, 116>>
StrIf == <<105, 102>>
StrElse == <<101, 108, 115, 101>>
StrTrue == <<116, 114, 117, 101>>
StrFalse == <<102, 97, 108, 115, 101>>

(* The keyword table of the first revision of package token: a table that  *)
(* lacks the later keywords.                                               *)
keywordTokenTypesByIdentFirst ==
  (StrFn :> Function) @@ (StrLet :> Let)

keywordTokenTypesByIdent ==
  (StrFn :> Function) @@ (StrReturn :> Return) @@ (StrLet :> Let) @@
  (StrIf :> If) @@ (StrElse :> Else) @@ (StrTrue :> True) @@
  (StrFalse :> False)

IdentTokenType(id) ==
  IF id \in DOMAIN keywordTokenTypesByIdent
    THEN keywordTokenTypesByIdent[id]
    ELSE Ident

(* A constructor that sets the type and leaves the literal empty.          *)
newTokenNoLiteral(tokenType, literal) == [Type |-> tokenType, Literal |-> <<>>]

newToken(tokenType, literal) == [Type |-> tokenType, Literal |-> literal]

(* token.Token{}: the zero token a failed call returns.                    *)
ZeroToken == [Type |-> "", Literal |-> <<>>]

-----------------------------------------------------------------------------
(* package lexer.                                                          *)

MaxASCII == 127

PanicAfterEOF == "lexer: NextToken called after EOF returned"

(* string(char) for a byte: Go converts the integer to the UTF-8 encoding  *)
(* of that code point, one byte below 128 and two bytes from 128 to 255.   *)
StringOfByte(char) ==
  IF char < 128 THEN <<char>> ELSE <<192 + (char \div 64), 128 + (char % 64)>>

(* s[p:] of a Go string.                                                   *)
SliceFrom(s, p) == SubSeq(s, p + 1, Len(s))

(* An off-by-one prefix test, which needs a byte after the prefix.         *)
HasPrefixStrict(s, prefix) ==
  Len(s) > Len(prefix) /\ SubSeq(s, 1, Len(prefix)) = prefix

(* A prefix test that compares the first byte and takes the rest on       *)
(* trust, without looking at the length.                                   *)
HasPrefixFirstByte(s, prefix) == SubSeq(s, 1, 1) = SubSeq(prefix, 1, 1)

HasPrefix(s, prefix) ==
  Len(s) >= Len(prefix) /\ SubSeq(s, 1, Len(prefix)) = prefix

(* A whitespace test that forgets the vertical tab.                        *)
isWhitespaceNoVT(char) ==
  char \in {Ch.tab, Ch.nl, Ch.ff, Ch.cr, Ch.space}

isWhitespace(char) ==
  char \in {Ch.tab, Ch.nl, Ch.vt, Ch.ff, Ch.cr, Ch.space}

(* A digit test whose lower comparison is strict.                          *)
isNumberStrict(char) == Ch.zero < char /\ char <= Ch.nine

isNumber(char) == Ch.zero <= char /\ char <= Ch.nine

(* An identifier-character test that forgets the underscore.               *)
isValidIdentCharNoUnderscore(char) ==
  \/ (Ch.lowerA <= char /\ char <= Ch.lowerZ)
  \/ (Ch.upperA <= char /\ char <= Ch.upperZ)
  \/ (Ch.zero <= char /\ char <= Ch.nine)

(* An identifier-character test with one range from 'A' to 'z', which     *)
(* takes in the six bytes between the two alphabets.                       *)
isValidIdentCharOneRange(char) ==
  \/ (Ch.upperA <= char /\ char <= Ch.lowerZ)
  \/ (Ch.zero <= char /\ char <= Ch.nine)

isValidIdentChar(char) ==
  \/ (Ch.lowerA <= char /\ char <= Ch.lowerZ)
  \/ (Ch.upperA <= char /\ char <= Ch.upperZ)
  \/ (Ch.zero <= char /\ char <= Ch.nine)
  \/ char = Ch.underscore

(* consumeWhitespace: the position after the whitespace run at p.          *)
RECURSIVE consumeWhitespace(_, _)
consumeWhitespace(s, p) ==
  IF p < Len(s) /\ isWhitespace(s[p + 1])
    THEN consumeWhitespace(s, p + 1)
    ELSE p

(* readInt: the loop appends string(src[pos]) while the byte is a digit;   *)
(* the result is the string read and the position the loop leaves.         *)
RECURSIVE readIntLoop(_, _, _)
readIntLoop(s, p, int) ==
  IF p < Len(s) /\ isNumber(s[p + 1])
    THEN readIntLoop(s, p + 1, int \o StringOfByte(s[p + 1]))
    ELSE [str |-> int, pos |-> p]

readInt(s, p) == readIntLoop(s, p, <<>>)

RECURSIVE readIdentLoop(_, _, _)
readIdentLoop(s, p, id) ==
  IF p < Len(s) /\ isValidIdentChar(s[p + 1])
    THEN readIdentLoop(s, p + 1, id \o StringOfByte(s[p + 1]))
    ELSE [str |-> id, pos |-> p]

readIdent(s, p) == readIdentLoop(s, p, <<>>)

(* What one call of NextToken does: the new pos and eofReturned, and what  *)
(* the call hands back: a (token, error) pair or a panic.  A nil error is  *)
(* the empty sequence and an *InvalidASCIIError a one-element sequence.    *)
Returns(p, eof, tok, err) ==
  [pos |-> p, eofReturned |-> eof,
   ret |-> [outcome |-> "return", panic |-> "", tok |-> tok, err |-> err]]

Panics(p, eof, msg) ==
  [pos |-> p, eofReturned |-> eof,
   ret |-> [outcome |-> "panic", panic |-> msg, tok |-> ZeroToken, err |-> <<>>]]

(* A call after EOF that answers EOF again instead of panicking.           *)
afterEOFRepeats(s, p) == Returns(p, TRUE, [Type |-> EOF, Literal |-> <<>>], <<>>)

(* if l.eofReturned { panic(...) }                                         *)
afterEOF(s, p) == Panics(p, TRUE, PanicAfterEOF)

(* An end of source that returns EOF and forgets to set the flag.          *)
atEndNoFlag(s, p) == Returns(p, FALSE, [Type |-> EOF, Literal |-> <<>>], <<>>)

(* if l.pos == len(l.src) { l.eofReturned = true; return EOF token }       *)
atEnd(s, p) == Returns(p, TRUE, [Type |-> EOF, Literal |-> <<>>], <<>>)

(* An error that reports position 0 whatever the position is.              *)
invalidASCIIAtZero(s, p) ==
  Returns(p, FALSE, ZeroToken, <<[Byte |-> s[p + 1], Position |-> 0]>>)

(* An error that steps over the offending byte.                            *)
invalidASCIIConsumes(s, p) ==
  Returns(p + 1, FALSE, ZeroToken, <<[Byte |-> s[p + 1], Position |-> p]>>)

(* return token.Token{}, &InvalidASCIIError{Byte: l.src[l.pos], Position: l.pos} *)
invalidASCII(s, p) ==
  Returns(p, FALSE, ZeroToken, <<[Byte |-> s[p + 1], Position |-> p]>>)

(* An ASCII test whose comparison is off by one.                           *)
isNotASCIIOffByOne(char) == char >= MaxASCII

(* char > unicode.MaxASCII                                                 *)
isNotASCII(char) == char > MaxASCII

(* A one-character case that forgets to advance.                           *)
singleCharStays(tokenType, char, p) ==
  Returns(p, FALSE, newToken(tokenType, StringOfByte(char)), <<>>)

(* l.pos++; return newToken(tokenType, string(char)), nil                  *)
singleChar(tokenType, char, p) ==
  Returns(p + 1, FALSE, newToken(tokenType, StringOfByte(char)), <<>>)

(* The switch on char and what follows it, for an ASCII byte at p.         *)
scanToken(s, p) ==
  LET char == s[p + 1] IN
  CASE char = Ch.assign ->
         IF HasPrefix(SliceFrom(s, p), StrEqual)
           THEN Returns(p + 2, FALSE, newToken(Equal, StrEqual), <<>>)
           ELSE singleChar(Assign, char, p)
    [] char = Ch.plus -> singleChar(Plus, char, p)
    [] char = Ch.minus -> singleChar(Minus, char, p)
    [] char = Ch.slash -> singleChar(Slash, char, p)
    [] char = Ch.asterisk -> singleChar(Asterisk, char, p)
    [] char = Ch.bang ->
         IF HasPrefix(SliceFrom(s, p), StrNotEqual)
           THEN Returns(p + 2, FALSE, newToken(NotEqual, StrNotEqual), <<>>)
           ELSE singleChar(Bang, char, p)
    [] char = Ch.less -> singleChar(Less, char, p)
    [] char = Ch.greater -> singleChar(Greater, char, p)
    [] char = Ch.comma -> singleChar(Comma, char, p)
    [] char = Ch.semicolon -> singleChar(Semicolon, char, p)
    [] char = Ch.lparen -> singleChar(LParen, char, p)
    [] char = Ch.rparen -> singleChar(RParen, char, p)
    [] char = Ch.lbrace -> singleChar(LBrace, char, p)
    [] char = Ch.rbrace -> singleChar(RBrace, char, p)
    [] OTHER ->
         LET int == readInt(s, p) IN
         IF int.str # <<>>
           THEN Returns(int.pos, FALSE, newToken(IntTok, int.str), <<>>)
           ELSE
             LET id == readIdent(s, int.pos) IN
             IF id.str # <<>>
               THEN Returns(id.pos, FALSE,
                            newToken(IdentTokenType(id.str), id.str), <<>>)
               ELSE singleChar(Illegal, char, id.pos)

(* Lexer.NextToken on a lexer with source s, position p and flag eof.      *)
nextToken(s, p, eof) ==
  IF eof
    THEN afterEOF(s, p)
    ELSE
      LET q == consumeWhitespace(s, p) IN
      IF q = Len(s)
        THEN atEnd(s, q)
        ELSE IF isNotASCII(s[q + 1])
          THEN invalidASCII(s, q)
          ELSE scanToken(s, q)

-----------------------------------------------------------------------------
(* The inputs the lexer is run on.                                         *)

SeqsUpTo(S, n) == UNION {[1..k -> S] : k \in 0..n}

(* Bytes of every class the lexer tells apart: NUL, whitespace, the        *)
(* operators with and without lookahead, digits, letters, underscore,      *)
(* bytes that are no token, the last ASCII byte and bytes above it.        *)
Alphabet ==
  {Ch.nul, Ch.tab, Ch.space, Ch.bang, Ch.lparen, Ch.plus, Ch.zero, Ch.nine,
   Ch.less, Ch.assign, Ch.backslash, Ch.underscore, Ch.lowerA, 102, 110,
   Ch.del, 128, 255}

Whitespace == {Ch.tab, Ch.nl, Ch.vt, Ch.ff, Ch.cr, Ch.space}

(* <byte> + "a" for every byte (lexer_test.go probes 0..127).              *)
Probes == {<<b, Ch.lowerA>> : b \in 0..255}

(* The sources of the tests of package lexer, and every keyword alone,     *)
(* extended by a letter and with its first letter in upper case.           *)
TestInputs ==
  { <<61, 43, 40, 41, 123, 125, 44, 59>>,
    <<49, 48, 32, 61, 61, 32, 49, 48, 59, 32, 49, 48, 32, 33, 61, 32, 57, 59>>,
    <<92, 43, 92, 43>>,
    <<9, 10, 11, 12, 13, 32>>,
    <<61, 255>>,
    <<33, 45, 47, 42, 53, 59>>,
    <<53, 32, 60, 32, 49, 48, 32, 62, 32, 53, 59>> }
  \cup DOMAIN keywordTokenTypesByIdent
  \cup {k \o <<120>> : k \in DOMAIN keywordTokenTypesByIdent}
  \cup {<<k[1] - 32>> \o Tail(k) : k \in DOMAIN keywordTokenTypesByIdent}

Inputs ==
  SeqsUpTo(Alphabet, MaxLen) \cup SeqsUpTo(Whitespace, MaxWsLen)
    \cup Probes \cup TestInputs

(* The strings IdentTokenType is applied to.                               *)
IdentAlphabet == {Ch.space, 76, 101, 102, 105, 108, 110, 116, 120}

IdentInputs ==
  SeqsUpTo(IdentAlphabet, MaxIdentLen)
    \cup DOMAIN keywordTokenTypesByIdent
    \cup {k \o <<c>> : k \in DOMAIN keywordTokenTypesByIdent, c \in IdentAlphabet}
    \cup {<<c>> \o k : k \in DOMAIN keywordTokenTypesByIdent, c \in IdentAlphabet}
    \cup {<<k[1] - 32>> \o Tail(k) : k \in DOMAIN keywordTokenTypesByIdent}
    \cup {SubSeq(k, 1, Len(k) - 1) : k \in DOMAIN keywordTokenTypesByIdent}

-----------------------------------------------------------------------------
(* The state machine.  src, pos and eofReturned are the fields of Lexer;   *)
(* ret is what the last call of NextToken handed back, tokens the tokens   *)
(* returned so far, calls the number of calls made and prevPos the         *)
(* position the last call started from.  ident and identType are the       *)
(* argument and the result of a call of token.IdentTokenType.              *)

NoCall == [outcome |-> "none", panic |-> "", tok |-> ZeroToken, err |-> <<>>]

(* lexer.New(src)                                                          *)
New(s) ==
  /\ src = s
  /\ eofReturned = FALSE
  /\ pos = 0

(* No other lexers and no REPL running.                                    *)
NoPair ==
  /\ lexers = <<>>
  /\ results = <<>>

NoRepl ==
  /\ stdin = <<>>
  /\ nread = 0
  /\ stdout = <<>>
  /\ pc = "none"

Init ==
  /\ \E s \in Inputs : New(s)
  /\ ret = NoCall
  /\ tokens = <<>>
  /\ calls = 0
  /\ prevPos = 0
  /\ ident = <<>>
  /\ identType = ""
  /\ NoPair
  /\ NoRepl

(* One call of l.NextToken().  A caller that recovers the panic, as the    *)
(* tests do, can call again.                                               *)
NextToken ==
  /\ calls < Len(src) + 1 + MaxExtraCalls
  /\ LET r == nextToken(src, pos, eofReturned) IN
       /\ pos' = r.pos
       /\ eofReturned' = r.eofReturned
       /\ ret' = r.ret
       /\ tokens' = IF r.ret.outcome = "return" /\ r.ret.err = <<>>
                      THEN Append(tokens, r.ret.tok)
                      ELSE tokens
  /\ calls' = calls + 1
  /\ prevPos' = pos
  /\ UNCHANGED <<src, ident, identType, pairVars, replVars>>

Next == NextToken

Spec == Init /\ [][Next]_vars

(* token.IdentTokenType applied to any string.                             *)
InitIdent ==
  /\ New(<<>>)
  /\ ret = NoCall
  /\ tokens = <<>>
  /\ calls = 0
  /\ prevPos = 0
  /\ ident \in IdentInputs
  /\ identType = ""
  /\ NoPair
  /\ NoRepl

CallIdentTokenType ==
  /\ identType = ""
  /\ identType' = IdentTokenType(ident)
  /\ UNCHANGED <<src, pos, eofReturned, ret, tokens, calls, prevPos, ident>>
  /\ UNCHANGED <<pairVars, replVars>>

NextIdent == CallIdentTokenType

SpecIdent == InitIdent /\ [][NextIdent]_vars

(* Several lexers at once: lexers 1 and 2 are built by New from the same   *)
(* source, lexer 3 from any other; a call works on the fields of its       *)
(* receiver alone, and the calls of the three interleave freely.           *)
LexerIds == {1, 2, 3}

PairAlphabet ==
  {Ch.space, Ch.zero, Ch.assign, Ch.backslash, Ch.lowerA, 102, 110, 255}

PairInputs == SeqsUpTo(PairAlphabet, MaxPairLen) \cup {StrLet, <<61, 255>>}

OtherInputs == {<<>>, StrFn \o <<32, 48>>, <<61, 61, 128>>}

(* &Lexer{src: src}                                                        *)
NewLexer(s) == [src |-> s, eofReturned |-> FALSE, pos |-> 0]

(* Fields that all lexers share, as package-level variables would be.      *)
storeShared(ls, i, r) ==
  [j \in DOMAIN ls |-> [ls[j] EXCEPT !.pos = r.pos, !.eofReturned = r.eofReturned]]

(* The assignments to l.pos and l.eofReturned through the receiver l.      *)
store(ls, i, r) ==
  [ls EXCEPT ![i].pos = r.pos, ![i].eofReturned = r.eofReturned]

InitPair ==
  /\ \E s \in PairInputs, o \in OtherInputs :
       lexers = <<NewLexer(s), NewLexer(s), NewLexer(o)>>
  /\ results = <<<<>>, <<>>, <<>>>>
  /\ New(<<>>)
  /\ ret = NoCall
  /\ tokens = <<>>
  /\ calls = 0
  /\ prevPos = 0
  /\ ident = <<>>
  /\ identType = ""
  /\ NoRepl

NextTokenOn(i) ==
  /\ Len(results[i]) < Len(lexers[i].src) + 1 + MaxExtraCalls
  /\ LET l == lexers[i]
         r == nextToken(l.src, l.pos, l.eofReturned) IN
       /\ lexers' = store(lexers, i, r)
       /\ results' = [results EXCEPT ![i] = Append(@, r.ret)]
  /\ UNCHANGED <<src, pos, eofReturned, ret, tokens, calls, prevPos>>
  /\ UNCHANGED <<ident, identType, replVars>>

NextPair == \E i \in LexerIds : NextTokenOn(i)

SpecPair == InitPair /\ [][NextPair]_vars

(* package repl.  stdin is the sequence of lines bufio.Scanner hands out   *)
(* (no newline in a line), nread how many of them Scan has returned and    *)
(* stdout what has been written: a prompt, a token or an error per entry.  *)
(* The lexer of the line at hand is src, pos and eofReturned.  pc is       *)
(* "prompt" at the top of the loop of Start, "tokens" inside the loop of   *)
(* printAllTokens, "done" after Start has returned and "panicked" after a  *)
(* panic has ended the program.                                            *)
ReplLines ==
  { <<>>, <<32>>, StrLet, <<255>>, <<61, 255>>, <<97, 61, 48>>, <<92, 43>>,
    <<48, 32, 128, 97>> }

Written(kind, tok, err) == [kind |-> kind, tok |-> tok, err |-> err]

InitRepl ==
  /\ stdin \in SeqsUpTo(ReplLines, MaxLines)
  /\ nread = 0
  /\ stdout = <<>>
  /\ pc = "prompt"
  /\ New(<<>>)
  /\ ret = NoCall
  /\ tokens = <<>>
  /\ calls = 0
  /\ prevPos = 0
  /\ ident = <<>>
  /\ identType = ""
  /\ NoPair

(* fmt.Fprint(out, "> "); if !scanner.Scan() { return };                   *)
(* line := scanner.Text(); lexer := lexer.New(line)                        *)
ReplReadLine ==
  /\ pc = "prompt"
  /\ stdout' = Append(stdout, Written("prompt", ZeroToken, <<>>))
  /\ IF nread = Len(stdin)
       THEN /\ pc' = "done"
            /\ UNCHANGED <<nread, src, pos, eofReturned, ret, tokens, calls, prevPos>>
       ELSE /\ pc' = "tokens"
            /\ nread' = nread + 1
            /\ src' = stdin[nread + 1]
            /\ eofReturned' = FALSE
            /\ pos' = 0
            /\ ret' = NoCall
            /\ tokens' = <<>>
            /\ calls' = 0
            /\ prevPos' = 0
  /\ UNCHANGED <<stdin, ident, identType, pairVars>>

(* A loop of printAllTokens that never breaks.                             *)
afterTokenNoBreak(tok) == "tokens"

(* if nextToken.Type == token.EOF { break }, and then return nil           *)
afterToken(tok) == IF tok.Type = EOF THEN "prompt" ELSE "tokens"

(* One turn of the loop of printAllTokens: the call of NextToken, the      *)
(* return of its error to Start, which prints it and continues, or the     *)
(* print of the token.                                                     *)
ReplNextToken ==
  /\ pc = "tokens"
  /\ LET r == nextToken(src, pos, eofReturned) IN
       /\ pos' = r.pos
       /\ eofReturned' = r.eofReturned
       /\ ret' = r.ret
       /\ IF r.ret.outcome = "panic"
            THEN /\ pc' = "panicked"
                 /\ UNCHANGED <<stdout, tokens>>
            ELSE IF r.ret.err # <<>>
              THEN /\ stdout' = Append(stdout, Written("error", ZeroToken, r.ret.err))
                   /\ pc' = "prompt"
                   /\ UNCHANGED tokens
              ELSE /\ stdout' = Append(stdout, Written("token", r.ret.tok, <<>>))
                   /\ pc' = afterToken(r.ret.tok)
                   /\ tokens' = Append(tokens, r.ret.tok)
  /\ calls' = calls + 1
  /\ prevPos' = pos
  /\ UNCHANGED <<src, stdin, nread, ident, identType, pairVars>>

NextRepl == ReplReadLine \/ ReplNextToken

SpecRepl == InitRepl /\ [][NextRepl]_vars

-----------------------------------------------------------------------------
(* Vocabulary of the properties, stated on the input bytes alone.          *)

IsToken(r) == r.outcome = "return" /\ r.err = <<>>

IsError(r) == r.outcome = "return" /\ r.err # <<>>

EOFToken == [Type |-> EOF, Literal |-> <<>>]

EOFWasReturned == \E i \in 1..Len(tokens) : tokens[i].Type = EOF

(* The position of the first byte at or after p that is no whitespace, or  *)
(* the length of s when there is none.                                     *)
SkipWhitespace(s, p) ==
  CHOOSE q \in p..Len(s) :
    /\ q = Len(s) \/ s[q + 1] \notin Whitespace
    /\ \A j \in (p + 1)..q : s[j] \in Whitespace

(* Where the last call started to read after its whitespace run.           *)
Start == SkipWhitespace(src, prevPos)

(* The zero-based offset of the first byte above 127 (Len(s) if none).     *)
FirstNonASCII(s) ==
  CHOOSE i \in 0..Len(s) :
    /\ i = Len(s) \/ s[i + 1] > 127
    /\ \A j \in 1..i : s[j] <= 127

OnlyWhitespace(s) == \A i \in 1..Len(s) : s[i] \in Whitespace

IsDigit(b) == b \in 48..57

IsLetter(b) == b \in 65..90 \/ b \in 97..122

IsIdentByte(b) == IsLetter(b) \/ IsDigit(b) \/ b = 95

KeywordTypes == {Function, Let, Return, If, Else, True, False}

SinglePunct ==
  (40 :> LParen) @@ (41 :> RParen) @@ (123 :> LBrace) @@ (125 :> RBrace) @@
  (44 :> Comma) @@ (59 :> Semicolon) @@ (43 :> Plus) @@ (45 :> Minus) @@
  (42 :> Asterisk) @@ (47 :> Slash) @@ (60 :> Less) @@ (62 :> Greater)

Tok(type, lit) == [Type |-> type, Literal |-> lit]

-----------------------------------------------------------------------------
(* C1: once a call of NextToken has returned the EOF token, every later    *)
(* call on the same lexer panics with "lexer: NextToken called after EOF   *)
(* returned" and returns neither a token nor an error, for empty and       *)
(* non-empty sources alike.                                                *)
C1_PanicsAfterEOF ==
  [][EOFWasReturned =>
       /\ ret'.outcome = "panic"
       /\ ret'.panic = "lexer: NextToken called after EOF returned"
       /\ tokens' = tokens]_vars

C1_Witness ==
  /\ src # <<>>
  /\ EOFWasReturned
  /\ ret.outcome = "panic"
  /\ calls = Len(tokens) + 2

(* C2: an invalid-encoding error carries the offending byte and its        *)
(* zero-based offset from the start of the source; on "=\xFF" the first    *)
(* call returns Assign and the second the error {Byte: 0xFF, Position: 1}. *)
C2_ErrorCarriesByteAndOffset ==
  /\ IsError(ret) =>
       /\ Len(ret.err) = 1
       /\ ret.err[1].Position = FirstNonASCII(src)
       /\ ret.err[1].Position < Len(src)
       /\ ret.err[1].Byte = src[ret.err[1].Position + 1]
       /\ ret.err[1].Byte > 127
  /\ src = <<61, 255>> =>
       /\ calls = 1 => IsToken(ret) /\ ret.tok = Tok(Assign, <<61>>)
       /\ calls = 2 => IsError(ret) /\ ret.err = <<[Byte |-> 255, Position |-> 1]>>

C2_Witness ==
  /\ src = <<61, 255>>
  /\ calls = 2
  /\ IsError(ret)
  /\ tokens = <<Tok(Assign, <<61>>)>>

(* C3: a call that returns the invalid-encoding error leaves the position  *)
(* at the offending byte and the EOF flag unset, so that the next call     *)
(* returns the same error again.                                           *)
C3_ErrorLeavesLexerInPlace ==
  [][/\ IsError(ret') =>
          /\ ~eofReturned'
          /\ pos' < Len(src)
          /\ pos' = ret'.err[1].Position
          /\ src[pos' + 1] = ret'.err[1].Byte
     /\ IsError(ret) =>
          /\ ret' = ret
          /\ pos' = pos
          /\ eofReturned' = eofReturned
          /\ tokens' = tokens]_vars

C3_Witness ==
  /\ IsError(ret)
  /\ calls >= Len(tokens) + 2
  /\ pos > 0

(* C4: a call that returns does so with the invalid-encoding error exactly *)
(* when, after the whitespace run and before the end of the source, the    *)
(* byte at the position is above 127; then no token comes with it, and for *)
(* a byte of at most 127 the call returns a token and a nil error.         *)
C4_ErrorIffByteAbove127 ==
  ret.outcome = "return" =>
    /\ IsError(ret) <=> (Start < Len(src) /\ src[Start + 1] > 127)
    /\ IsError(ret) => ret.tok = ZeroToken
    /\ (Start < Len(src) /\ src[Start + 1] <= 127) =>
         /\ IsToken(ret)
         /\ ret.tok.Type \notin {"", EOF}

C4_Witness ==
  /\ IsToken(ret)
  /\ Start < Len(src)
  /\ src[Start + 1] = 127
  /\ ret.tok = Tok(Illegal, <<127>>)

(* C5: a source of whitespace bytes only, the empty source included,       *)
(* yields exactly one token, EOF with an empty literal; in any source no   *)
(* token holds a whitespace byte and a token starts after the run.         *)
C5_WhitespaceIsSkipped ==
  /\ (OnlyWhitespace(src) /\ calls >= 1) => tokens = <<EOFToken>>
  /\ \A i \in 1..Len(tokens) :
       \A j \in 1..Len(tokens[i].Literal) :
         tokens[i].Literal[j] \notin Whitespace
  /\ (IsToken(ret) /\ ret.tok.Type # EOF) =>
       /\ ret.tok.Literal # <<>>
       /\ ret.tok.Literal[1] = src[Start + 1]

C5_Witness ==
  /\ src = <<9, 10, 11, 12, 13, 32>>
  /\ tokens = <<EOFToken>>
  /\ pos = 6

(* C6: at '=' or '!' the call returns Equal "==" or NotEqual "!=" and      *)
(* consumes two bytes when the next byte is '='; otherwise, also at the    *)
(* end of the source, it returns Assign or Bang and consumes one byte.     *)
(* "===" yields Equal and then Assign.                                     *)
C6_OneByteLookahead ==
  /\ (ret.outcome = "return" /\ Start < Len(src) /\ src[Start + 1] \in {61, 33}) =>
       LET c == src[Start + 1] IN
       /\ IsToken(ret)
       /\ IF Start + 1 < Len(src) /\ src[Start + 2] = 61
            THEN /\ ret.tok = Tok(IF c = 61 THEN Equal ELSE NotEqual, <<c, 61>>)
                 /\ pos = Start + 2
            ELSE /\ ret.tok = Tok(IF c = 61 THEN Assign ELSE Bang, <<c>>)
                 /\ pos = Start + 1
  /\ (src = <<61, 61, 61>> /\ calls >= 2) =>
       SubSeq(tokens, 1, 2) = <<Tok(Equal, <<61, 61>>), Tok(Assign, <<61>>)>>

C6_Witness ==
  /\ src = <<61, 61, 61>>
  /\ calls = 2
  /\ ret.tok = Tok(Assign, <<61>>)
  /\ pos = 3

C8_IntegerIsMaximalDigitRun ==
  (ret.outcome = "return" /\ Start < Len(src) /\ IsDigit(src[Start + 1])) =>
    /\ IsToken(ret)
    /\ ret.tok.Type = IntTok
    /\ pos > Start
    /\ ret.tok.Literal = SubSeq(src, Start + 1, pos)
    /\ \A j \in (Start + 1)..pos : IsDigit(src[j])
    /\ pos = Len(src) \/ ~IsDigit(src[pos + 1])

C8_Witness ==
  /\ IsToken(ret)
  /\ ret.tok = Tok(IntTok, <<48, 57>>)
  /\ pos < Len(src)
  /\ src[pos + 1] = 97

(* C9: for every byte 0..127 that is no whitespace, the first token of     *)
(* <byte> + "a" is Ident exactly when the byte is a letter or underscore;  *)
(* a token of identifier shape (Ident or a keyword) starts at a letter or  *)
(* underscore and is the maximal run of letters, digits and underscores.   *)
C9_IdentifierStartAndRun ==
  /\ \A b \in (0..127) \ Whitespace :
       (src = <<b, 97>> /\ calls >= 1) =>
         /\ Len(tokens) >= 1
         /\ tokens[1].Type = Ident <=> (IsLetter(b) \/ b = 95)
  /\ (ret.outcome = "return" /\ Start < Len(src)
        /\ (IsLetter(src[Start + 1]) \/ src[Start + 1] = 95)) =>
       /\ IsToken(ret)
       /\ ret.tok.Type \in {Ident} \cup KeywordTypes
       /\ pos > Start
       /\ ret.tok.Literal = SubSeq(src, Start + 1, pos)
       /\ \A j \in (Start + 1)..pos : IsIdentByte(src[j])
       /\ pos = Len(src) \/ ~IsIdentByte(src[pos + 1])
  /\ (IsToken(ret) /\ ret.tok.Type \in {Ident} \cup KeywordTypes) =>
       /\ Start < Len(src)
       /\ IsLetter(src[Start + 1]) \/ src[Start + 1] = 95

C9_Witness ==
  /\ src = <<95, 97>>
  /\ calls = 1
  /\ ret.tok = Tok(Ident, <<95, 97>>)

(* C10: IdentTokenType returns Function, Let, Return, If, Else, True and   *)
(* False for exactly "fn", "let", "return", "if", "else", "true" and       *)
(* "false", matching the whole string and its case, and Ident for every    *)
(* other string.                                                           *)
C10_IdentTokenTypeTable ==
  identType # "" =>
    identType =
      CASE ident = <<102, 110>> -> Function
        [] ident = <<108, 101, 116>> -> Let
        [] ident = <<114, 101, 116, 117, 114, 110>> -> Return
        [] ident = <<105, 102>> -> If
        [] ident = <<101, 108, 115, 101>> -> Else
        [] ident = <<116, 114, 117, 101>> -> True
        [] ident = <<102, 97, 108, 115, 101>> -> False
        [] OTHER -> Ident

C10_Witness ==
  /\ ident = <<108, 101, 116, 120>>
  /\ identType = Ident

(* C11: a byte of at most 127 that is no whitespace, no punctuation or     *)
(* operator byte, no digit, no letter and no underscore is consumed alone  *)
(* and returned as an Illegal token with that byte as literal and a nil    *)
(* error; scanning goes on, so "\+\+" yields Illegal, Plus, Illegal, Plus, *)
(* EOF.                                                                    *)
IsOtherByte(b) ==
  /\ b <= 127
  /\ b \notin Whitespace
  /\ b \notin DOMAIN SinglePunct \cup {61, 33}
  /\ ~IsIdentByte(b)

C11_IllegalByteIsAToken ==
  /\ (ret.outcome = "return" /\ Start < Len(src) /\ IsOtherByte(src[Start + 1])) =>
       /\ IsToken(ret)
       /\ ret.tok = Tok(Illegal, <<src[Start + 1]>>)
       /\ pos = Start + 1
       /\ ~eofReturned
  /\ (src = <<92, 43, 92, 43>> /\ eofReturned) =>
       tokens = << Tok(Illegal, <<92>>), Tok(Plus, <<43>>), Tok(Illegal, <<92>>),
                   Tok(Plus, <<43>>), EOFToken >>

C11_Witness ==
  /\ src = <<92, 43, 92, 43>>
  /\ eofReturned
  /\ Len(tokens) = 5

(* C12: on a source with no byte above 127, repeated calls return the      *)
(* tokens and then EOF within Len(src) + 1 calls, because every call that  *)
(* returns a token other than EOF consumes at least one byte.              *)
OnlyASCII(s) == \A i \in 1..Len(s) : s[i] <= 127

C12_EOFWithinLenPlusOneCalls ==
  OnlyASCII(src) =>
    /\ ~EOFWasReturned =>
         /\ calls = Len(tokens)
         /\ calls <= pos
         /\ calls <= Len(src)
    /\ calls > Len(src) => EOFWasReturned
    /\ EOFWasReturned =>
         /\ tokens[Len(tokens)] = EOFToken
         /\ Len(tokens) <= Len(src) + 1

C12_Witness ==
  /\ OnlyASCII(src)
  /\ Len(src) = 3
  /\ calls = 4
  /\ Len(tokens) = 4
  /\ ret.tok = EOFToken

C14_EOFExactlyAtEnd ==
  /\ ret.outcome = "return" =>
       /\ (IsToken(ret) /\ ret.tok.Type = EOF) <=> Start = Len(src)
       /\ ret.tok.Type = EOF => ret.tok = EOFToken /\ pos = Len(src)
       /\ (Start < Len(src) /\ src[Start + 1] = 0) =>
            ret.tok = Tok(Illegal, <<0>>)
  /\ eofReturned <=> EOFWasReturned
  /\ \A i \in 1..Len(tokens) : tokens[i].Type = EOF => i = Len(tokens)

C14_Witness ==
  /\ src = <<0, 97>>
  /\ tokens = <<Tok(Illegal, <<0>>), Tok(Ident, <<97>>), EOFToken>>
  /\ eofReturned

(* C15: in every state 0 <= pos <= Len(src), also when the source ends in  *)
(* a digit run, in an identifier run or in a lone '=' or '!'; the byte a   *)
(* call dispatches on, the byte an error reports and the bytes of a token  *)
(* all lie below Len(src).                                                 *)
C15_PositionWithinSource ==
  /\ 0 <= pos /\ pos <= Len(src)
  /\ 0 <= prevPos /\ prevPos <= Len(src)
  /\ (ret.outcome = "return" /\ ret.tok.Type # EOF) => Start < Len(src)
  /\ IsError(ret) => ret.err[1].Position < Len(src)
  /\ IsToken(ret) => Start + Len(ret.tok.Literal) <= Len(src)

C15_Witness ==
  /\ Len(src) = 3
  /\ IsDigit(src[1])
  /\ src[2] = 97
  /\ src[3] = 33
  /\ ret.tok = Tok(Bang, <<33>>)
  /\ pos = 3

(* C16: the position never decreases from one call to the next; a call     *)
(* that returns a token other than EOF with a nil error increases it; the  *)
(* bytes of the token it returns start at or after the position the call   *)
(* found, so that no byte belongs to two tokens.                           *)
C16_PositionOnlyAdvances ==
  [][/\ pos' >= pos
     /\ (IsToken(ret') /\ ret'.tok.Type # EOF) =>
          /\ pos' > pos
          /\ pos' - Len(ret'.tok.Literal) >= pos]_vars

C16_Witness ==
  /\ IsToken(ret)
  /\ ret.tok = Tok(Equal, <<61, 61>>)
  /\ prevPos = 2
  /\ Start = 3
  /\ pos = 5

(* C17: a token other than EOF returned with a nil error has as literal    *)
(* the bytes of the source from the position after the whitespace run, and *)
(* the call leaves the position right after them; so the literals of the   *)
(* tokens returned so far, in order, are the bytes read so far without the *)
(* whitespace, and on a source with no byte above 127 the whole source     *)
(* without its whitespace once EOF is returned.                            *)
RECURSIVE ConcatLiterals(_)
ConcatLiterals(toks) ==
  IF toks = <<>> THEN <<>> ELSE Head(toks).Literal \o ConcatLiterals(Tail(toks))

NotWhitespace(b) == b \notin Whitespace

C17_LiteralIsSourceSlice ==
  /\ (IsToken(ret) /\ ret.tok.Type # EOF) =>
       /\ ret.tok.Literal # <<>>
       /\ Start + Len(ret.tok.Literal) <= Len(src)
       /\ ret.tok.Literal = SubSeq(src, Start + 1, Start + Len(ret.tok.Literal))
       /\ pos = Start + Len(ret.tok.Literal)
  /\ ConcatLiterals(tokens) = SelectSeq(SubSeq(src, 1, pos), NotWhitespace)
  /\ (OnlyASCII(src) /\ eofReturned) =>
       ConcatLiterals(tokens) = SelectSeq(src, NotWhitespace)

C17_Witness ==
  /\ src = <<49, 48, 32, 61, 61, 32, 49, 48, 59, 32, 49, 48, 32, 33, 61, 32, 57, 59>>
  /\ eofReturned
  /\ Len(tokens) = 9
  /\ ConcatLiterals(tokens) = <<49, 48, 61, 61, 49, 48, 59, 49, 48, 33, 61, 57, 59>>

(* C18: for every sequence of lines the REPL builds a fresh lexer per      *)
(* line and makes no call on it after the first EOF token or the first     *)
(* error, so that NextToken never panics; after an error on a line it      *)
(* prints the error and goes on with the next line, and it returns only    *)
(* when every line has been read.                                          *)
LineEnds ==
  Len(SelectSeq(stdout,
        LAMBDA w : w.kind = "error" \/ (w.kind = "token" /\ w.tok.Type = EOF)))

Prompts == Len(SelectSeq(stdout, LAMBDA w : w.kind = "prompt"))

C18_ReplNeverCallsAfterEOF ==
  pc # "none" =>
    /\ pc # "panicked" /\ ret.outcome # "panic"
    /\ pc = "tokens" =>
         /\ ~eofReturned /\ ~IsError(ret)
         /\ src = stdin[nread]
         /\ calls = 0 => pos = 0
         /\ LineEnds = nread - 1
    /\ IsError(ret) =>
         /\ pc \in {"prompt", "done"}
         /\ pc = "prompt" => stdout[Len(stdout)] = Written("error", ZeroToken, ret.err)
    /\ pc \in {"prompt", "done"} => LineEnds = nread
    /\ pc = "done" => nread = Len(stdin) /\ Prompts = Len(stdin) + 1

C18_Witness ==
  /\ pc = "done"
  /\ stdin = <<<<61, 255>>, StrLet>>
  /\ stdout = << Written("prompt", ZeroToken, <<>>),
                 Written("token", Tok(Assign, <<61>>), <<>>),
                 Written("error", ZeroToken, <<[Byte |-> 255, Position |-> 1]>>),
                 Written("prompt", ZeroToken, <<>>),
                 Written("token", Tok(Let, StrLet), <<>>),
                 Written("token", EOFToken, <<>>),
                 Written("prompt", ZeroToken, <<>>) >>

====
